---------------------------- MODULE Spec2Model ----------------------------
(***************************************************************************)
(* A model of the notebooks' own code: the Hogg (2010) mixture likelihood  *)
(* with its prior (lnprior, lnGau, lnprob, check_outlier), the walker      *)
(* set-up, the burn-in cut and the percentile summary of the emcee         *)
(* notebook, and the CubicSpline covariance kernel of the Gaussian-process *)
(* notebook.                                                               *)
(*                                                                         *)
(* Floating-point numbers are modelled as decimal fixed-point numbers of   *)
(* FScale units per 1, with the IEEE special values nan, -inf and +inf and *)
(* their arithmetic (nan compares false with everything, log(0) = -inf,    *)
(* log(x < 0) = nan, x/0 = +-inf, inf - inf = nan).  A value too large for *)
(* the fixed-point range is held as a "big" number, an integer count of    *)
(* whole units, on which only comparison and log are defined.              *)
(***************************************************************************)
EXTENDS Integers, Sequences, FiniteSets

VARIABLES
    theta,      \* the parameter vector [m, b, Pb, Yb, Vb] a function is called with
    thetaB,     \* a second parameter vector, equal to theta but for Vb
    lp,         \* lnprior(theta), or Unset
    lpB,        \* lnprior(thetaB), or Unset
    x, y, sy,   \* the data columns
    lnp,        \* what lnprob(theta, x, y, sy) returned, or Unset
    calls,      \* the functions the last call of lnprob evaluated, in order
    q,          \* what check_outlier(theta, x, y, sy) returned (one flag per point)
    pos,        \* the walkers' starting positions
    nsteps,     \* the steps run_mcmc has taken
    chain,      \* sampler.chain: chain[w][s] is walker w's position after step s
    samples,    \* the final sample: one parameter vector per row
    fits,       \* np.percentile(samples, [16, 50, 84], axis=0)
    fits_pm,    \* the (median, upper, lower) triples
    x_min, x_max,   \* the CubicSpline kernel's fields
    X, Xs,      \* the arguments of the kernel's last call
    normed,     \* X and Xs as that call normalised them
    K,          \* the covariance matrix (full) or vector (diag) that call returned
    kcall,      \* the kernel method last called: "none", "full" or "diag"
    notebook,   \* the notebook being run: "none", "mcmc", "gp" or "emcee"
    cellNo,     \* the code cell being run
    stmtNo,     \* the statement of that cell to run next
    names,      \* the global namespace: each bound name and the model it was bound in
    bodies,     \* for each function or class defined, the global names its body reads
    nameErrors, \* the NameError that stopped the run, if any
    csvReads,   \* the number of times data.csv has been read
    columns,    \* the columns of the table accessed so far
    gpUses      \* the gp.predict / gp.conditional calls made so far

priorVars == <<theta, thetaB, lp, lpB>>
likeVars == <<x, y, sy, lnp, calls, q>>
walkVars == <<pos>>
chainVars == <<nsteps, chain>>
sumVars == <<samples, fits, fits_pm>>

kernVars == <<x_min, x_max, X, Xs, normed, K, kcall>>

cellVars == <<notebook, cellNo, stmtNo, names, bodies, nameErrors, csvReads, columns, gpUses>>

vars == <<priorVars, likeVars, walkVars, chainVars, sumVars, kernVars, cellVars>>

(***************************************************************************)
(* Floating point                                                          *)
(***************************************************************************)
FScale == 10^4

F(n) == [k |-> "fin", v |-> n]
R(n) == F(n * FScale)
Big(n) == [k |-> "big", v |-> n]
NaN == [k |-> "nan", v |-> 0]
NInf == [k |-> "ninf", v |-> 0]
PInf == [k |-> "pinf", v |-> 0]
Unset == [k |-> "unset", v |-> 0]

isfinite(a) == a.k \in {"fin", "big"}

\* a < b as Python/numpy compare floats: false as soon as one side is nan
FLt(a, b) ==
    CASE a.k = "nan" \/ b.k = "nan" -> FALSE
      [] a.k = "ninf" -> b.k # "ninf"
      [] b.k = "pinf" -> a.k # "pinf"
      [] a.k = "pinf" \/ b.k = "ninf" -> FALSE
      [] a.k = "fin" /\ b.k = "fin" -> a.v < b.v
      [] a.k = "big" /\ b.k = "big" -> a.v < b.v
      [] a.k = "fin" /\ b.k = "big" -> TRUE
      [] a.k = "big" /\ b.k = "fin" -> FALSE

FGt(a, b) == FLt(b, a)

RECURSIVE ILog2(_)
ILog2(n) == IF n < 2 THEN 0 ELSE 1 + ILog2(n \div 2)

\* ln(n) in units of 1/FScale for an integer n >= 1: n = 2^k * y with y in [1, 2),
\* ln(y) = 2 * atanh((y - 1) / (y + 1)) by its series
LnInt(n) ==
    LET k == ILog2(n)
        sh == IF k > 16 THEN k - 16 ELSE 0
        nn == n \div (2^sh)
        p == 2^(k - sh)
        z == ((nn - p) * FScale) \div (nn + p)
        z2 == (z * z) \div FScale
        z3 == (z2 * z) \div FScale
        z5 == (z3 * z2) \div FScale
        z7 == (z5 * z2) \div FScale
    IN  (k * 693147) \div 100 + 2 * (z + z3 \div 3 + z5 \div 5 + z7 \div 7)

\* np.log
FLog(a) ==
    CASE a.k = "nan" -> NaN
      [] a.k = "ninf" -> NaN
      [] a.k = "pinf" -> PInf
      [] a.k = "big" -> F(LnInt(a.v))
      [] a.k = "fin" /\ a.v < 0 -> NaN
      [] a.k = "fin" /\ a.v = 0 -> NInf
      [] a.k = "fin" /\ a.v > 0 -> F(LnInt(a.v) - LnInt(FScale))

Abs(n) == IF n < 0 THEN -n ELSE n
Sgn(n) == IF n < 0 THEN -1 ELSE IF n > 0 THEN 1 ELSE 0

\* the fixed-point product a * b, in four partial products so that none overflows
MulFix(a, b) ==
    LET xi == Abs(a) \div FScale
        xf == Abs(a) % FScale
        yi == Abs(b) \div FScale
        yf == Abs(b) % FScale
    IN  Sgn(a) * Sgn(b) * (xi * yi * FScale + xi * yf + xf * yi + (xf * yf) \div FScale)

RECURSIVE FracDigits(_, _, _)
FracDigits(r, d, n) ==
    IF n = 0 THEN 0
    ELSE ((r * 10) \div d) * 10^(n - 1) + FracDigits((r * 10) % d, d, n - 1)

\* the fixed-point quotient a / b (b # 0), by long division
DivFix(a, b) ==
    Sgn(a) * Sgn(b) * ((Abs(a) \div Abs(b)) * FScale + FracDigits(Abs(a) % Abs(b), Abs(b), 4))

\* e^(v / FScale) in units of 1/FScale for v <= 0: e^v = 2^(-k) / e^r, 0 <= r < ln 2
ExpFix(v) ==
    LET k == (-v) \div 6931
        r == (-v) % 6931
        t2 == (r * r) \div (2 * FScale)
        t3 == (t2 * r) \div (3 * FScale)
        t4 == (t3 * r) \div (4 * FScale)
        t5 == (t4 * r) \div (5 * FScale)
        t6 == (t5 * r) \div (6 * FScale)
        er == FScale + r + t2 + t3 + t4 + t5 + t6
    IN  IF k > 13 THEN 0 ELSE (FScale * FScale) \div (er * 2^k)

FNeg(a) ==
    CASE a.k = "fin" -> F(-a.v)
      [] a.k = "ninf" -> PInf
      [] a.k = "pinf" -> NInf
      [] a.k = "nan" -> NaN

FAdd(a, b) ==
    CASE a.k = "nan" \/ b.k = "nan" -> NaN
      [] a.k = "fin" /\ b.k = "fin" -> F(a.v + b.v)
      [] a.k = "fin" /\ b.k \in {"ninf", "pinf"} -> b
      [] a.k \in {"ninf", "pinf"} /\ b.k = "fin" -> a
      [] a.k \in {"ninf", "pinf"} /\ b.k = a.k -> a
      [] a.k \in {"ninf", "pinf"} /\ b.k \in {"ninf", "pinf"} /\ b.k # a.k -> NaN

FSub(a, b) == FAdd(a, FNeg(b))

FSign(a) == IF a.k = "fin" THEN Sgn(a.v) ELSE IF a.k = "pinf" THEN 1 ELSE -1

FMul(a, b) ==
    CASE a.k = "nan" \/ b.k = "nan" -> NaN
      [] a.k = "fin" /\ b.k = "fin" -> F(MulFix(a.v, b.v))
      [] (a.k # "fin" \/ b.k # "fin") /\ FSign(a) * FSign(b) = 0 -> NaN
      [] (a.k # "fin" \/ b.k # "fin") /\ FSign(a) * FSign(b) > 0 -> PInf
      [] (a.k # "fin" \/ b.k # "fin") /\ FSign(a) * FSign(b) < 0 -> NInf

\* numpy's true division: x/0 is +-inf, 0/0 is nan
FDiv(a, b) ==
    CASE a.k = "nan" \/ b.k = "nan" -> NaN
      [] a.k = "fin" /\ b.k = "fin" /\ b.v # 0 -> F(DivFix(a.v, b.v))
      [] a.k = "fin" /\ b.k = "fin" /\ b.v = 0 ->
            IF a.v = 0 THEN NaN ELSE IF a.v > 0 THEN PInf ELSE NInf
      [] a.k = "fin" /\ b.k \in {"ninf", "pinf"} -> F(0)
      [] a.k \in {"ninf", "pinf"} /\ b.k = "fin" ->
            IF (FSign(a) < 0) = (b.v < 0) THEN PInf ELSE NInf
      [] a.k \in {"ninf", "pinf"} /\ b.k \in {"ninf", "pinf"} -> NaN

\* np.exp, on the arguments the likelihood gives it (never above 0)
FExp(a) ==
    CASE a.k = "nan" -> NaN
      [] a.k = "ninf" -> F(0)
      [] a.k = "pinf" -> PInf
      [] a.k = "fin" /\ a.v <= 0 -> F(ExpFix(a.v))
      [] a.k = "fin" /\ a.v > 0 ->
            IF ExpFix(-a.v) = 0 THEN PInf ELSE F((FScale * FScale) \div ExpFix(-a.v))

\* np.amax of two numbers: nan as soon as one is nan
FMax(a, b) ==
    IF a.k = "nan" \/ b.k = "nan" THEN NaN ELSE IF FLt(a, b) THEN b ELSE a

Pi == F(31416)

(***************************************************************************)
(* lnprior                                                                 *)
(***************************************************************************)
lnpriorNonStrict(t) ==
    IF /\ FLt(R(-10), t[1]) /\ FLt(t[1], R(10))
       /\ FLt(R(-500), t[2]) /\ ~FLt(R(500), t[2])
       /\ FLt(R(0), t[3]) /\ FLt(t[3], R(1))
       /\ FLt(R(-100), t[4]) /\ FLt(t[4], R(2000))
       /\ FLt(R(0), FLog(t[5])) /\ FLt(FLog(t[5]), R(20))
    THEN R(0)
    ELSE NInf

lnprior(t) ==
    IF /\ FLt(R(-10), t[1]) /\ FLt(t[1], R(10))
       /\ FLt(R(-500), t[2]) /\ FLt(t[2], R(500))
       /\ FLt(R(0), t[3]) /\ FLt(t[3], R(1))
       /\ FLt(R(-100), t[4]) /\ FLt(t[4], R(2000))
       /\ FLt(R(0), FLog(t[5])) /\ FLt(FLog(t[5]), R(20))
    THEN R(0)
    ELSE NInf

(***************************************************************************)
(* lnGau, lnprob and check_outlier                                         *)
(***************************************************************************)
\* the log of a Gaussian density of variance var at residual yy - model
lnGau(model, yy, var) ==
    LET residual == FMul(FSub(yy, model), FSub(yy, model))
    IN  FMul(F(-5000), FAdd(FLog(FMul(FMul(R(2), Pi), var)), FDiv(residual, var)))

\* scipy.special.logsumexp([a1, a2], b=[b1, b2]) at one data point:
\* log(b1 * exp(a1 - a_max) + b2 * exp(a2 - a_max)) + a_max
logsumexp(a1, a2, b1, b2) ==
    LET c1 == IF b1 = F(0) THEN NInf ELSE a1
        c2 == IF b2 = F(0) THEN NInf ELSE a2
        m0 == FMax(c1, c2)
        a_max == IF m0.k = "fin" THEN m0 ELSE F(0)
        tmp1 == FMul(b1, FExp(FSub(c1, a_max)))
        tmp2 == FMul(b2, FExp(FSub(c2, a_max)))
    IN  FAdd(FLog(FAdd(tmp1, tmp2)), a_max)

RECURSIVE FSum(_)
FSum(a) == IF a = <<>> THEN F(0) ELSE FAdd(a[1], FSum(Tail(a)))

\* the line model's and the outlier model's log-probability of every data point
lnpf(t, xx, yy, ss) ==
    [i \in 1..Len(xx) |->
        lnGau(FAdd(FMul(t[1], xx[i]), t[2]), yy[i], FMul(ss[i], ss[i]))]

lnpb(t, xx, yy, ss) ==
    [i \in 1..Len(xx) |-> lnGau(t[4], yy[i], FAdd(t[5], FMul(ss[i], ss[i])))]

lnlikeSwapped(t, xx, yy, ss) ==
    FSum([i \in 1..Len(xx) |->
            logsumexp(lnpf(t, xx, yy, ss)[i], lnpb(t, xx, yy, ss)[i],
                      t[3], FSub(R(1), t[3]))])

lnlike(t, xx, yy, ss) ==
    FSum([i \in 1..Len(xx) |->
            logsumexp(lnpf(t, xx, yy, ss)[i], lnpb(t, xx, yy, ss)[i],
                      FSub(R(1), t[3]), t[3])])

AllCalls == <<"lnprior", "lnGau", "lnGau", "logsumexp">>

lnprobNoGuard(t, xx, yy, ss) ==
    [ret |-> FAdd(lnprior(t), lnlike(t, xx, yy, ss)), calls |-> AllCalls]

\* what lnprob returns, with the functions it evaluated on the way
lnprob(t, xx, yy, ss) ==
    IF ~isfinite(lnprior(t))
    THEN [ret |-> NInf, calls |-> <<"lnprior">>]
    ELSE [ret |-> FAdd(lnprior(t), lnlike(t, xx, yy, ss)), calls |-> AllCalls]

FGe(a, b) == a.k # "nan" /\ b.k # "nan" /\ ~FLt(a, b)

check_outlierGe(t, xx, yy, ss) ==
    [i \in 1..Len(xx) |->
        FGe(FAdd(FAdd(lnpb(t, xx, yy, ss)[i], FLog(t[3])), lnprior(t)),
            FAdd(FAdd(lnpf(t, xx, yy, ss)[i], FLog(FSub(R(1), t[3]))), lnprior(t)))]

check_outlier(t, xx, yy, ss) ==
    [i \in 1..Len(xx) |->
        FGt(FAdd(FAdd(lnpb(t, xx, yy, ss)[i], FLog(t[3])), lnprior(t)),
            FAdd(FAdd(lnpf(t, xx, yy, ss)[i], FLog(FSub(R(1), t[3]))), lnprior(t)))]

(***************************************************************************)
(* Calls of lnprior over parameter vectors on, next to and far from every  *)
(* bound of the prior                                                      *)
(***************************************************************************)
MVals == {NaN, F(-100001), R(-10), F(-99999), F(99999), R(10), F(100001)}
BVals == {F(-5000001), R(-500), F(-4999999), F(4999999), R(500), F(5000001)}
PbVals == {F(-1), R(0), F(1), F(9999), R(1), F(10001)}
YbVals == {F(-1000001), R(-100), F(-999999), F(19999999), R(2000), F(20000001)}
VbVals == {R(-1), R(0), R(1), R(2), R(100), Big(4 * 10^8), Big(5 * 10^8)}

PriorThetas ==
    {<<m, b, Pb, Yb, Vb>> : m \in MVals, b \in BVals, Pb \in PbVals, Yb \in YbVals,
                            Vb \in VbVals}

IdleLike == x = <<>> /\ y = <<>> /\ sy = <<>> /\ lnp = Unset /\ calls = <<>> /\ q = <<>>
IdleWalk == pos = <<>>
IdleChain == nsteps = 0 /\ chain = <<>>
IdleSum == samples = <<>> /\ fits = <<>> /\ fits_pm = <<>>
NoneArg == [none |-> TRUE, val |-> <<>>]
Some(a) == [none |-> FALSE, val |-> a]

IdleKern ==
    /\ x_min = R(0) /\ x_max = R(1)
    /\ X = <<>> /\ Xs = NoneArg /\ normed = <<>> /\ K = <<>> /\ kcall = "none"

IdleCells ==
    /\ notebook = "none" /\ cellNo = 0 /\ stmtNo = 0
    /\ names = <<>> /\ bodies = <<>> /\ nameErrors = {}
    /\ csvReads = 0 /\ columns = {} /\ gpUses = {}

InitPrior ==
    /\ theta \in PriorThetas
    /\ thetaB = theta
    /\ lp = Unset
    /\ lpB = Unset
    /\ IdleLike /\ IdleWalk /\ IdleChain /\ IdleSum /\ IdleKern /\ IdleCells

\* lp = lnprior(theta)
EvalPrior ==
    /\ lp = Unset
    /\ lp' = lnprior(theta)
    /\ UNCHANGED <<theta, thetaB, lpB, likeVars, walkVars, chainVars, sumVars, kernVars, cellVars>>

\* lnprior again, at a position that differs from theta in Vb alone
EvalPriorB ==
    /\ lp # Unset
    /\ lpB = Unset
    /\ \E Vb \in VbVals \ {theta[5]} :
          /\ thetaB' = [theta EXCEPT ![5] = Vb]
          /\ lpB' = lnprior(thetaB')
    /\ UNCHANGED <<theta, lp, likeVars, walkVars, chainVars, sumVars, kernVars, cellVars>>

NextPrior == EvalPrior \/ EvalPriorB

SpecPrior == InitPrior /\ [][NextPrior]_vars

\* the five strict bounds, on the numbers themselves; e^20 = 485165195.4...
InOpen(a, lo, hi) == a.k = "fin" /\ lo * FScale < a.v /\ a.v < hi * FScale

InBounds(t) ==
    /\ InOpen(t[1], -10, 10)
    /\ InOpen(t[2], -500, 500)
    /\ InOpen(t[3], 0, 1)
    /\ InOpen(t[4], -100, 2000)
    /\ \/ t[5].k = "fin" /\ t[5].v > FScale
       \/ t[5].k = "big" /\ t[5].v <= 485165195

\* C2: lnprior(theta) is 0.0 exactly when all five strict bounds hold, and -inf
\* for every other theta, a theta with a parameter on a bound included.
C2_LnpriorStrictBounds ==
    /\ lp # Unset => lp = (IF InBounds(theta) THEN R(0) ELSE NInf)
    /\ lpB # Unset => lpB = (IF InBounds(thetaB) THEN R(0) ELSE NInf)

\* lnprior has rejected a theta whose only fault is ln(Vb) = 0, on the bound
C2_Witness ==
    /\ lp = NInf
    /\ InOpen(theta[1], -10, 10) /\ InOpen(theta[2], -500, 500)
    /\ InOpen(theta[3], 0, 1) /\ InOpen(theta[4], -100, 2000)
    /\ theta[5] = R(1)
    /\ lpB = R(0)

\* C3 (as claimed): inside the range the prior density over theta is uniform per
\* unit of ln(Vb), that is proportional to 1/Vb: between two positions that
\* differ in Vb alone, lnprior changes by -(ln(VbB) - ln(Vb)).
C3_FlatInLogVb ==
    (lp = R(0) /\ lpB = R(0)) =>
        FSub(lpB, lp) = FSub(FLog(theta[5]), FLog(thetaB[5]))

(***************************************************************************)
(* Calls of lnprob and check_outlier over small data sets                  *)
(***************************************************************************)
NData == 2

\* candidate data points <<x, y, sy>>
DataPoints ==
    {<<R(1), R(1), R(1)>>, <<R(2), R(3), F(5000)>>, <<R(3), R(2), R(2)>>,
     <<R(1), R(4), R(1)>>}

LikeThetas ==
    {<<m, b, Pb, Yb, Vb>> :
        m \in {R(1), R(2), R(10)}, b \in {R(0), R(1)},
        Pb \in {F(-2500), R(0), F(1000), F(2500), R(1)},
        Yb \in {R(2), R(-100)}, Vb \in {R(-1), R(1), R(2), R(100)}}

InitLike ==
    /\ theta \in LikeThetas
    /\ thetaB = theta
    /\ lp = Unset
    /\ lpB = Unset
    /\ \E d \in [1..NData -> DataPoints] :
          /\ x = [i \in 1..NData |-> d[i][1]]
          /\ y = [i \in 1..NData |-> d[i][2]]
          /\ sy = [i \in 1..NData |-> d[i][3]]
    /\ lnp = Unset
    /\ calls = <<>>
    /\ q = <<>>
    /\ IdleWalk /\ IdleChain /\ IdleSum /\ IdleKern /\ IdleCells

\* lnprob(theta, x, y, sy), as the sampler calls it
CallLnprob ==
    /\ lnp = Unset
    /\ lp' = lnprior(theta)
    /\ lnp' = lnprob(theta, x, y, sy).ret
    /\ calls' = lnprob(theta, x, y, sy).calls
    /\ UNCHANGED <<theta, thetaB, lpB, x, y, sy, q, walkVars, chainVars, sumVars, kernVars, cellVars>>

\* check_outlier(theta, x, y, sy)
CallCheckOutlier ==
    /\ q = <<>>
    /\ q' = check_outlier(theta, x, y, sy)
    /\ UNCHANGED <<priorVars, x, y, sy, lnp, calls, walkVars, chainVars, sumVars, kernVars, cellVars>>

NextLike == CallLnprob \/ CallCheckOutlier

SpecLike == InitLike /\ [][NextLike]_vars

\* the weighted background and foreground log-probabilities of data point i
WeightedBackground(i) ==
    FAdd(FAdd(lnGau(theta[4], y[i], FAdd(theta[5], FMul(sy[i], sy[i]))),
              FLog(theta[3])),
         lnprior(theta))

WeightedForeground(i) ==
    FAdd(FAdd(lnGau(FAdd(FMul(theta[1], x[i]), theta[2]), y[i], FMul(sy[i], sy[i])),
              FLog(FSub(R(1), theta[3]))),
         lnprior(theta))

\* C1: check_outlier returns, for every data point, True exactly when the
\* weighted background log-probability is strictly greater than the weighted
\* foreground log-probability, and False otherwise, also when the two are equal.
C1_OutlierIffBackgroundGreater ==
    q # <<>> =>
        /\ Len(q) = Len(x)
        /\ \A i \in 1..Len(x) :
              /\ q[i] = FGt(WeightedBackground(i), WeightedForeground(i))
              /\ WeightedBackground(i) = WeightedForeground(i) => q[i] = FALSE

\* inside the prior, one point has been flagged and another has not
C1_Witness ==
    /\ q # <<>>
    /\ InBounds(theta)
    /\ \E i, j \in 1..Len(q) : q[i] /\ ~q[j]

\* C4: lnprob returns -inf whenever lnprior(theta) is not finite, without
\* evaluating the likelihood terms, and otherwise lnprior(theta) plus the
\* log-likelihood; it returns nothing finite for a theta outside the prior range.
C4_LnprobGuardsPrior ==
    lnp # Unset =>
        /\ ~isfinite(lp) => (lnp = NInf /\ calls = <<"lnprior">>)
        /\ isfinite(lp) => lnp = FAdd(lp, lnlike(theta, x, y, sy))
        /\ ~InBounds(theta) => ~isfinite(lnp)

\* lnprob has returned -inf for a theta outside the prior after lnprior alone
C4_Witness ==
    /\ lnp = NInf
    /\ ~InBounds(theta)
    /\ calls = <<"lnprior">>

(***************************************************************************)
(* Equation 17, evaluated as it is written: the mixture of two normal      *)
(* densities, in the linear domain                                         *)
(***************************************************************************)
RECURSIVE SqrtIter(_, _)
SqrtIter(n, g) ==
    LET h == (g + n \div g) \div 2 IN IF h >= g THEN g ELSE SqrtIter(n, h)

ISqrt(n) == IF n < 2 THEN n ELSE SqrtIter(n, n)

FSqrt(a) ==
    IF a.v < 2 * 10^5 THEN F(ISqrt(a.v * FScale)) ELSE F(ISqrt(a.v * 100) * 10)

\* N(yy; mu, var) = exp(-(yy - mu)^2 / (2 var)) / sqrt(2 pi var)
NormalPdf(yy, mu, var) ==
    FDiv(FExp(FNeg(FDiv(FMul(FSub(yy, mu), FSub(yy, mu)), FMul(R(2), var)))),
         FSqrt(FMul(FMul(R(2), Pi), var)))

MixtureTerm(t, xi, yi, si) ==
    FAdd(FMul(FSub(R(1), t[3]),
              NormalPdf(yi, FAdd(FMul(t[1], xi), t[2]), FMul(si, si))),
         FMul(t[3], NormalPdf(yi, t[4], FAdd(t[5], FMul(si, si)))))

MixtureLogLike(t, xx, yy, ss) ==
    FSum([i \in 1..Len(xx) |-> FLog(MixtureTerm(t, xx[i], yy[i], ss[i]))])

\* the fixed-point densities resolve 1/FScale, which at the smallest mixture
\* density of these data (0.004) is 0.05 in the logarithm, per data point
LikeTol == 6 * 10^2

\* C5: inside the prior the likelihood part of lnprob is the sum over the data
\* points of log[(1-Pb) N(y_i; m x_i + b, sy_i^2) + Pb N(y_i; Yb, Vb + sy_i^2)],
\* one summand per data point.
C5_LikelihoodIsMixture ==
    (lnp # Unset /\ InBounds(theta)) =>
        /\ lnp.k = "fin"
        /\ MixtureLogLike(theta, x, y, sy).k = "fin"
        /\ Abs(FSub(lnp, lp).v - MixtureLogLike(theta, x, y, sy).v) <= LikeTol * Len(x)

\* lnprob has returned a finite value inside the prior, over two different points
C5_Witness ==
    /\ lnp.k = "fin"
    /\ InBounds(theta)
    /\ calls = AllCalls
    /\ Len(x) >= 2 /\ x[1] # x[2]

(***************************************************************************)
(* The walker set-up                                                       *)
(***************************************************************************)
ndim == 5
MaxWalkers == 2
\* np.random.randn is bounded: its polar method returns sqrt(-2 ln(r2)) * x2/sqrt(r2)
\* with r2 >= 2^-104, at most 12.01 in magnitude
RandnMax == 13

p0 == <<R(1), R(240), F(1000), R(420), R(100)>>

StartBallUnscaled(z) == [d \in 1..ndim |-> FAdd(p0[d], FMul(R(1), R(z[d])))]

\* p0 + 1e-4 * randn(5), for the draw z
StartBall(z) == [d \in 1..ndim |-> FAdd(p0[d], FMul(F(1), R(z[d])))]

InitWalk ==
    /\ theta = p0 /\ thetaB = p0 /\ lp = Unset /\ lpB = Unset
    /\ IdleLike
    /\ pos = <<>>
    /\ IdleChain /\ IdleSum /\ IdleKern /\ IdleCells

\* one turn of the list comprehension that builds pos
AddWalker ==
    /\ Len(pos) < MaxWalkers
    /\ \E z \in [1..ndim -> {-RandnMax, RandnMax}] : pos' = Append(pos, StartBall(z))
    /\ UNCHANGED <<priorVars, likeVars, chainVars, sumVars, kernVars, cellVars>>

NextWalk == AddWalker

SpecWalk == InitWalk /\ [][NextWalk]_vars

\* C6: every starting position p0 + 1e-4 * randn(5) has a finite prior
\* probability: lnprior(pos[k]) = 0.0 for all k.
C6_StartsInsidePrior ==
    \A k \in 1..Len(pos) : lnprior(pos[k]) = R(0) /\ InBounds(pos[k])

\* all walkers are placed, one of them with every parameter at its lowest draw
C6_Witness ==
    /\ Len(pos) = MaxWalkers
    /\ \E k \in 1..Len(pos) : \A d \in 1..ndim : pos[k][d] = F(p0[d].v - RandnMax)

(***************************************************************************)
(* run_mcmc and the burn-in cut                                            *)
(***************************************************************************)
NSteps == 1000
BurnIn == 400
MaxStay == 4

InitChain ==
    /\ theta = p0 /\ thetaB = p0 /\ lp = Unset /\ lpB = Unset
    /\ IdleLike
    /\ \E z \in [1..MaxWalkers -> {-RandnMax, 0, RandnMax}] :
          pos = [w \in 1..MaxWalkers |-> StartBall([d \in 1..ndim |-> z[w]])]
    /\ nsteps = 0
    /\ chain = <<>>
    /\ IdleSum /\ IdleKern /\ IdleCells

\* sampler.run_mcmc(pos, 1000).  The moves are emcee's: here walker w accepts
\* every stay[w]-th proposal and repeats its position in between, and each
\* accepted move shifts it by 1e-4.
RunMcmc ==
    /\ nsteps = 0
    /\ nsteps' = NSteps
    /\ \E stay \in [1..MaxWalkers -> 1..MaxStay] :
          chain' = [w \in 1..MaxWalkers |->
                      [st \in 1..NSteps |->
                          [d \in 1..ndim |-> FAdd(pos[w][d], F(st \div stay[w]))]]]
    /\ UNCHANGED <<priorVars, likeVars, walkVars, sumVars, kernVars, cellVars>>

\* a[:, from:, :].reshape((-1, ndim)): the kept steps in row-major order, cut
\* into rows of ndim numbers
SliceReshape(a, from) ==
    LET kept == NSteps - from
        flat == [n \in 1..(Len(a) * kept * ndim) |->
                    a[((n - 1) \div (kept * ndim)) + 1]
                     [from + (((n - 1) % (kept * ndim)) \div ndim) + 1]
                     [((n - 1) % ndim) + 1]]
    IN  [r \in 1..(Len(flat) \div ndim) |-> [d \in 1..ndim |-> flat[(r - 1) * ndim + d]]]

\* samples = sampler.chain[:, 400:, :].reshape((-1, ndim))
CutBurnIn ==
    /\ nsteps = NSteps
    /\ samples = <<>>
    /\ samples' = SliceReshape(chain, BurnIn)
    /\ UNCHANGED <<priorVars, likeVars, walkVars, chainVars, fits, fits_pm, kernVars, cellVars>>

NextChain == RunMcmc \/ CutBurnIn

SpecChain == InitChain /\ [][NextChain]_vars

\* C7 (as claimed): the final sample is exactly the last half of every walker's
\* chain, one ndim-long row per kept step, none dropped and none duplicated.
C7_SamplesAreLastHalf ==
    samples # <<>> =>
        /\ Len(samples) = MaxWalkers * (NSteps \div 2)
        /\ \A w \in 1..MaxWalkers : \A j \in 1..(NSteps \div 2) :
              samples[(w - 1) * (NSteps \div 2) + j] = chain[w][NSteps \div 2 + j]

(***************************************************************************)
(* The percentile summary of the final sample                              *)
(***************************************************************************)
MaxRows == 4

\* parameter vectors the final sample is drawn from, all inside the prior
SampleRows ==
    {<<F(22000), R(35), F(2000), R(400), R(100)>>,
     <<F(22500), R(30), F(2500), R(420), R(900)>>,
     <<F(24000), R(-10), F(5000), R(600), R(150)>>}

RECURSIVE Insert(_, _)
Insert(a, e) ==
    IF a = <<>> THEN <<e>>
    ELSE IF FLt(e, a[1]) THEN <<e>> \o a ELSE <<a[1]>> \o Insert(Tail(a), e)

RECURSIVE SortSeq(_)
SortSeq(a) == IF a = <<>> THEN <<>> ELSE Insert(SortSeq(Tail(a)), a[1])

Column(a, d) == [r \in 1..Len(a) |-> a[r][d]]

\* np.percentile of one column, by linear interpolation between the two order
\* statistics around the rank qq/100 * (n - 1)
Percentile(col, qq) ==
    LET srt == SortSeq(col)
        n == Len(srt)
        lo == (qq * (n - 1)) \div 100
        hi == IF lo + 1 < n THEN lo + 1 ELSE lo
        t == F((((qq * (n - 1)) % 100) * FScale) \div 100)
    IN  FAdd(srt[lo + 1], FMul(FSub(srt[hi + 1], srt[lo + 1]), t))

\* np.percentile(a, qs, axis=0): one row per percentile, one column per parameter
percentile(a, qs) ==
    [i \in 1..Len(qs) |-> [d \in 1..ndim |-> Percentile(Column(a, d), qs[i])]]

TriplePMSwapped(v) == <<v[2], FSub(v[2], v[1]), FSub(v[3], v[2])>>

\* lambda v: (v[1], v[2]-v[1], v[1]-v[0])
TriplePM(v) == <<v[2], FSub(v[3], v[2]), FSub(v[2], v[1])>>

\* map(lambda v: ..., zip(*fits))
FitsPm(f) == [d \in 1..Len(f[1]) |-> TriplePM([i \in 1..Len(f) |-> f[i][d]])]

InitSum ==
    /\ theta = p0 /\ thetaB = p0 /\ lp = Unset /\ lpB = Unset
    /\ IdleLike /\ IdleWalk /\ IdleChain /\ IdleKern /\ IdleCells
    /\ \E n \in 1..MaxRows : samples \in [1..n -> SampleRows]
    /\ fits = <<>>
    /\ fits_pm = <<>>

\* fits = np.percentile(samples, [16, 50, 84], axis=0) and fits_pm from it
Summarise ==
    /\ fits = <<>>
    /\ fits' = percentile(samples, <<16, 50, 84>>)
    /\ fits_pm' = FitsPm(fits')
    /\ UNCHANGED <<priorVars, likeVars, walkVars, chainVars, samples, kernVars, cellVars>>

NextSum == Summarise

SpecSum == InitSum /\ [][NextSum]_vars

\* the median as it is defined: the middle order statistic, or the mean of the
\* two middle ones
Median(col) ==
    LET srt == SortSeq(col)
        n == Len(srt)
    IN  IF n % 2 = 1 THEN srt[(n + 1) \div 2]
        ELSE F((srt[n \div 2].v + srt[n \div 2 + 1].v) \div 2)

\* v stands at rank qq/100 * (n - 1) of the column: enough of the column is at
\* or below it, and enough at or above it
AtRank(col, v, qq) ==
    LET n == Len(col)
    IN  /\ Cardinality({r \in 1..n : col[r].v <= v.v}) >= (qq * (n - 1)) \div 100 + 1
        /\ Cardinality({r \in 1..n : col[r].v >= v.v}) >= n - (qq * (n - 1) + 99) \div 100

\* C8: for each parameter fits_pm holds (median, upper, lower) with median the
\* 50th percentile of the sample, upper = 84th percentile - median and lower =
\* median - 16th percentile, both non-negative, so that [median - lower,
\* median + upper] runs from the 16th to the 84th percentile.
C8_MedianUpperLower ==
    fits_pm # <<>> =>
        /\ Len(fits_pm) = ndim
        /\ \A d \in 1..ndim :
              LET col == Column(samples, d)
                  median == fits_pm[d][1]
                  upper == fits_pm[d][2]
                  lower == fits_pm[d][3]
              IN  /\ Len(fits_pm[d]) = 3
                  /\ median = Median(col)
                  /\ upper.v >= 0 /\ lower.v >= 0
                  /\ AtRank(col, FSub(median, lower), 16)
                  /\ AtRank(col, median, 50)
                  /\ AtRank(col, FAdd(median, upper), 84)
                  /\ FSub(median, lower) = fits[1][d]
                  /\ FAdd(median, upper) = fits[3][d]

\* a full sample has been summarised, one parameter with unequal offsets
C8_Witness ==
    /\ fits_pm # <<>>
    /\ Len(samples) = MaxRows
    /\ \E d \in 1..ndim :
          /\ fits_pm[d][2].v > 0 /\ fits_pm[d][3].v > 0
          /\ fits_pm[d][2] # fits_pm[d][3]

(***************************************************************************)
(* The CubicSpline covariance kernel.  An array is a sequence of rows.     *)
(***************************************************************************)
FAbs(a) == IF a.k = "fin" /\ a.v < 0 THEN F(-a.v) ELSE IF a.k = "ninf" THEN PInf ELSE a

\* tt.minimum and tt.maximum of two numbers
FMin(a, b) ==
    IF a.k = "nan" \/ b.k = "nan" THEN NaN ELSE IF FLt(b, a) THEN b ELSE a

\* broadcasting of two arrays: an axis of length 1 is stretched to the other
\* array's length
BRows(a, b) == IF Len(a) > Len(b) THEN Len(a) ELSE Len(b)
BCols(a, b) == IF Len(a[1]) > Len(b[1]) THEN Len(a[1]) ELSE Len(b[1])
At(a, i, j) == a[IF Len(a) = 1 THEN 1 ELSE i][IF Len(a[1]) = 1 THEN 1 ELSE j]

Transpose(a) == [j \in 1..Len(a[1]) |-> [i \in 1..Len(a) |-> a[i][j]]]

\* Covariance._slice with one active dimension: the first column
Slice(a) == [i \in 1..Len(a) |-> <<a[i][1]>>]

normReversed(lo, hi, a) ==
    [i \in 1..Len(a) |-> [j \in 1..Len(a[i]) |->
        FDiv(FSub(a[i][j], hi), FSub(hi, lo))]]

normUnscaled(lo, hi, a) ==
    [i \in 1..Len(a) |-> [j \in 1..Len(a[i]) |-> FSub(a[i][j], lo)]]

\* CubicSpline.norm: d = x_max - x_min, (X - x_min) / d
norm(lo, hi, a) ==
    [i \in 1..Len(a) |-> [j \in 1..Len(a[i]) |->
        FDiv(FSub(a[i][j], lo), FSub(hi, lo))]]

\* X and Xs as full and diag normalise them; Xs is X when it is None
NormedArgs(lo, hi, a, b) ==
    <<norm(lo, hi, Slice(a)), norm(lo, hi, IF b.none THEN Slice(a) ELSE Slice(b.val))>>

CubicOfMax(nX, nXs) ==
    LET T == Transpose(nXs)
        d(i, j) == FAbs(FSub(At(nX, i, j), At(T, i, j)))
        v(i, j) == FMax(At(nX, i, j), At(T, i, j))
    IN  [i \in 1..BRows(nX, T) |-> [j \in 1..BCols(nX, T) |->
            FAdd(FAdd(R(1), FMul(FMul(F(5000), d(i, j)), FMul(v(i, j), v(i, j)))),
                 FDiv(FMul(FMul(v(i, j), v(i, j)), v(i, j)), R(3)))]]

\* d = |X - Xs^T|, v = min(X, Xs^T), k = 1 + (0.5 * d * v**2) + ((v**3) / 3)
Cubic(nX, nXs) ==
    LET T == Transpose(nXs)
        d(i, j) == FAbs(FSub(At(nX, i, j), At(T, i, j)))
        v(i, j) == FMin(At(nX, i, j), At(T, i, j))
    IN  [i \in 1..BRows(nX, T) |-> [j \in 1..BCols(nX, T) |->
            FAdd(FAdd(R(1), FMul(FMul(F(5000), d(i, j)), FMul(v(i, j), v(i, j)))),
                 FDiv(FMul(FMul(v(i, j), v(i, j)), v(i, j)), R(3)))]]

\* CubicSpline.full
full(lo, hi, a, b) == Cubic(NormedArgs(lo, hi, a, b)[1], NormedArgs(lo, hi, a, b)[2])

\* CubicSpline.diag: 1 + Xt**3 / 3 over the flattened, normalised X
diag(lo, hi, a) ==
    LET Xt == [i \in 1..Len(a) |-> norm(lo, hi, Slice(a))[i][1]]
    IN  [i \in 1..Len(Xt) |-> FAdd(R(1), FDiv(FMul(FMul(Xt[i], Xt[i]), Xt[i]), R(3)))]

\* np.linspace(start, stop, num): start + i * step, the last one set to stop
linspace(start, stop, num) ==
    [i \in 1..num |->
        IF i = num THEN stop
        ELSE FAdd(FMul(R(i - 1), FDiv(FSub(stop, start), R(num - 1))), start)]

n_new == 500
x1 == <<R(1), R(3), R(5), R(6), R(7), R(8)>>
X_new == linspace(R(0), R(10), n_new)

\* a[:, None]
AsColumn(a) == [i \in 1..Len(a) |-> <<a[i]>>]

MaxPts == 2
PtVals == {R(0), F(25000), R(5), R(10)}
SmallArrays == UNION {[1..n -> {<<p>> : p \in PtVals}] : n \in 1..MaxPts}

\* the kernel calls behind gp.marginal_likelihood(X=x1[:, None]) and
\* gp.predict(X_new[:, None], diag=True): cov(X), cov(X, Xnew), cov(Xnew, diag=True)
NotebookCalls ==
    {[m |-> "full", a |-> AsColumn(x1), b |-> NoneArg],
     [m |-> "full", a |-> AsColumn(x1), b |-> Some(AsColumn(X_new))],
     [m |-> "diag", a |-> AsColumn(X_new), b |-> NoneArg]}

\* CubicSpline(1) or, as in model_cube, CubicSpline(1, x_min=0, x_max=10)
InitKern ==
    /\ theta = p0 /\ thetaB = p0 /\ lp = Unset /\ lpB = Unset
    /\ IdleLike /\ IdleWalk /\ IdleChain /\ IdleSum /\ IdleCells
    /\ \E r \in {<<R(0), R(1)>>, <<R(0), R(10)>>} : x_min = r[1] /\ x_max = r[2]
    /\ X = <<>> /\ Xs = NoneArg /\ normed = <<>> /\ K = <<>> /\ kcall = "none"

Call(c) ==
    /\ kcall = "none"
    /\ X' = c.a
    /\ Xs' = c.b
    /\ kcall' = c.m
    /\ normed' = NormedArgs(x_min, x_max, c.a, c.b)
    /\ K' = IF c.m = "full" THEN full(x_min, x_max, c.a, c.b) ELSE diag(x_min, x_max, c.a)
    /\ UNCHANGED <<priorVars, likeVars, walkVars, chainVars, sumVars, x_min, x_max, cellVars>>

\* full(X, Xs) on small arrays, Xs given or None
CallFull ==
    \E a \in SmallArrays, b \in {NoneArg} \cup {Some(e) : e \in SmallArrays} :
        Call([m |-> "full", a |-> a, b |-> b])

\* diag(X) on small arrays
CallDiag == \E a \in SmallArrays : Call([m |-> "diag", a |-> a, b |-> NoneArg])

\* the calls the notebook's model_cube makes
CallFromNotebook ==
    /\ x_min = R(0) /\ x_max = R(10)
    /\ \E c \in NotebookCalls : Call(c)

NextKern == CallFull \/ CallDiag \/ CallFromNotebook

SpecKern == InitKern /\ [][NextKern]_vars

\* the claimed entry for normalised inputs u and v:
\* 1 + |u - v| * min(u, v)^2 / 2 + min(u, v)^3 / 3
CubicEntry(u, v) ==
    LET mn == IF u.v < v.v THEN u ELSE v
    IN  FAdd(FAdd(R(1), FDiv(FMul(FAbs(FSub(u, v)), FMul(mn, mn)), R(2))),
             FDiv(FMul(mn, FMul(mn, mn)), R(3)))

\* the fixed-point product rounds once per factor, so the two ways of
\* grouping the entry's factors agree to within two units of 1/FScale
KernTol == 1 + 1

\* C9: full(X, Xs) is the matrix whose (i, j) entry is
\* 1 + |u - v| * min(u, v)^2 / 2 + min(u, v)^3 / 3 with u = norm(X_i) and
\* v = norm(Xs_j), and Xs is X when it is given as None.
C9_FullIsCubicOfNormed ==
    kcall = "full" =>
        LET B == IF Xs.none THEN X ELSE Xs.val
            U(i) == FDiv(FSub(X[i][1], x_min), FSub(x_max, x_min))
            V(j) == FDiv(FSub(B[j][1], x_min), FSub(x_max, x_min))
        IN  /\ Len(K) = Len(X)
            /\ \A i \in 1..Len(X) :
                  /\ Len(K[i]) = Len(B)
                  /\ \A j \in 1..Len(B) :
                        /\ K[i][j].k = "fin"
                        /\ Abs(K[i][j].v - CubicEntry(U(i), V(j)).v) <= KernTol

\* full has been called with Xs = None on two different points
C9_Witness ==
    /\ kcall = "full"
    /\ Xs.none
    /\ Len(X) = 2 /\ X[1] # X[2]
    /\ K[1][2] # K[1][1]

NotebookInputs == {AsColumn(x1), AsColumn(X_new)}

\* C10: with CubicSpline(1, x_min=0, x_max=10) norm maps x_min to 0 and x_max
\* to 1, and every input the notebook passes to the kernel (x1 and X_new) is
\* normalised to a value in [0, 1].
C10_NotebookInputsInUnitInterval ==
    (x_min = R(0) /\ x_max = R(10)) =>
        /\ norm(x_min, x_max, <<<<x_min>>, <<x_max>>>>) = <<<<R(0)>>, <<R(1)>>>>
        /\ (/\ kcall # "none"
            /\ X \in NotebookInputs
            /\ Xs.none \/ Xs.val \in NotebookInputs) =>
                \A n \in 1..2 : \A i \in 1..Len(normed[n]) :
                    /\ normed[n][i][1].k = "fin"
                    /\ 0 <= normed[n][i][1].v
                    /\ normed[n][i][1].v <= FScale

\* the notebook's kernel has taken x1 and the 500 prediction points, and the
\* end points of X_new have become 0 and 1
C10_Witness ==
    /\ x_min = R(0) /\ x_max = R(10)
    /\ kcall = "full"
    /\ X = AsColumn(x1)
    /\ ~Xs.none /\ Len(Xs.val) = n_new
    /\ normed[2][1][1] = R(0) /\ normed[2][n_new][1] = R(1)

\* what is left of a symmetric matrix after its first row and column are
\* eliminated: M[i][j] - M[i][1] * M[1][j] / M[1][1]
Schur(M) ==
    [i \in 1..(Len(M) - 1) |-> [j \in 1..(Len(M) - 1) |->
        FSub(M[i + 1][j + 1], FDiv(FMul(M[i + 1][1], M[1][j + 1]), M[1][1]))]]

\* every pivot of the elimination is positive, which for a symmetric matrix
\* is positive definiteness (the Cholesky factorisation exists)
RECURSIVE PivotsPositive(_)
PivotsPositive(M) ==
    \/ M = <<>>
    \/ /\ M[1][1].k = "fin" /\ M[1][1].v > 0
       /\ PivotsPositive(Schur(M))

Symmetric(M) == \A i, j \in 1..Len(M) : Len(M[i]) = Len(M) /\ M[i][j] = M[j][i]

\* the inputs are distinct and their normalised values lie in [0, 1]; they are
\* the small arrays, whose pivots are well above the resolution 1/FScale of the
\* model's numbers
DistinctInUnit(a) ==
    /\ a \in SmallArrays
    /\ \A i, j \in 1..Len(a) : i # j => a[i][1] # a[j][1]
    /\ \A i \in 1..Len(a) :
          LET u == FDiv(FSub(a[i][1], x_min), FSub(x_max, x_min))
          IN  u.k = "fin" /\ 0 <= u.v /\ u.v <= FScale

St(l, r, b) ==
    [line |-> l, reads |-> r, binds |-> b, body |-> {}, isdef |-> FALSE,
     csv |-> FALSE, cols |-> {}, ctx |-> "none", use |-> "none", point |-> "", var |-> ""]

\* def n / class n: r is read at the definition (base classes), fr are the
\* global names the body reads when it is called
Def(l, n, r, fr) == [St(l, r, {n}) EXCEPT !.body = fr, !.isdef = TRUE]

\* the statement accesses the columns c of the table data
Data(s, c) == [s EXCEPT !.cols = c]

\* the statement reads the file data.csv
ReadCsv(s) == [s EXCEPT !.csv = TRUE]

\* the statement stands in the body of "with pm.Model() as m:" or "with m:"
In(m, s) == [s EXCEPT !.ctx = m]

\* the statement calls gp.predict(..., point=p) ("predict"), gp.conditional
\* ("conditional") or pm.sample_posterior_predictive(p, vars=[v]) ("ppc")
Use(s, u, p, v) == [s EXCEPT !.use = u, !.point = p, !.var = v]

\* the code cells of mcmc_fit_with_outliers_pymc.ipynb, one statement per entry
McmcCells == <<
    <<
      St(35, {}, {"np"}),
      St(36, {}, {"plt"}),
      St(37, {}, {"pm"}),
      St(38, {}, {"tt"}),
      St(39, {}, {"pandas"}),
      St(40, {}, {"seaborn"}),
      St(41, {}, {"mpl_style"}),
      St(43, {"mpl_style", "plt"}, {}),
      St(44, {"mpl_style", "seaborn"}, {})
    >>,
    <<
      ReadCsv(St(64, {"pandas"}, {"data"})),
      Data(St(66, {"data"}, {"x_mean"}), {"x"}),
      Data(St(67, {"data"}, {"x_std"}), {"x"}),
      Data(St(68, {"data"}, {"y_mean"}), {"y"}),
      Data(St(69, {"data"}, {"y_std"}), {"y"}),
      Data(St(72, {"data", "x_mean", "x_std"}, {"x_center"}), {"x"}),
      Data(St(73, {"data", "y_mean", "y_std"}, {"y_center"}), {"y"}),
      Data(St(74, {"data", "y_std"}, {"sy_center"}), {"sy"}),
      Data(St(75, {"data", "x_std"}, {"sx_center"}), {"sx"}),
      Data(St(78, {"data"}, {"idx"}), {"x"})
    >>,
    <<
      St(101, {"plt"}, {}),
      Data(St(102, {"data", "plt"}, {}), {"sy", "x", "y"}),
      St(113, {"plt"}, {}),
      St(114, {"plt"}, {}),
      St(115, {"plt"}, {}),
      St(117, {"plt"}, {}),
      St(118, {"plt", "sy_center", "x_center", "y_center"}, {}),
      St(129, {"plt"}, {}),
      St(130, {"plt"}, {}),
      St(131, {"plt"}, {})
    >>,
    <<
      St(151, {"pm"}, {"mdl_ols"}),
      In("mdl_ols", St(153, {"pm"}, {"b0"})),
      In("mdl_ols", St(154, {"pm"}, {"b1"})),
      In("mdl_ols", St(156, {"b0", "b1", "pm", "x_center"}, {"y_est"})),
      In("mdl_ols", St(157, {"pm", "sy_center", "y_center", "y_est"}, {"likelihood"})),
      St(159, {"display", "mdl_ols"}, {}),
      St(160, {"display", "mdl_ols", "pm"}, {})
    >>,
    <<
      St(182, {"mdl_ols"}, {}),
      In("mdl_ols", St(183, {"pm"}, {"traces_ols"}))
    >>,
    <<
      St(205, {"mdl_ols"}, {}),
      In("mdl_ols", St(206, {"display", "pm", "traces_ols"}, {})),
      In("mdl_ols", St(207, {"pm", "traces_ols"}, {}))
    >>,
    <<
      St(228, {"seaborn", "traces_ols"}, {"fig"}),
      St(235, {"fig"}, {}),
      St(236, {"seaborn"}, {})
    >>,
    <<
      Def(255, "un_center", {}, {}),
      St(261, {"traces_ols", "un_center", "x_mean", "x_std", "y_mean", "y_std"}, {"b0", "b1"}),
      St(263, {"b0", "b1", "seaborn"}, {"fig"}),
      St(270, {"fig"}, {}),
      St(271, {"seaborn"}, {})
    >>,
    <<
      St(294, {"traces_ols", "y_mean", "y_std"}, {"y_est"}),
      St(297, {"plt"}, {}),
      Data(St(298, {"data", "plt"}, {}), {"sy", "x", "y"}),
      St(311, {"idx", "np", "y_est"}, {"y_est_median", "y_est_minus_2_sigma", "y_est_plus_2_sigma"}),
      Data(St(318, {"data", "idx", "plt", "y_est_median"}, {}), {"x"}),
      Data(St(327, {"data", "idx", "plt", "y_est_minus_2_sigma", "y_est_plus_2_sigma"}, {}), {"x"}),
      Data(St(337, {"data", "idx", "plt", "y_est"}, {}), {"x"}),
      St(344, {"plt"}, {}),
      St(345, {"plt"}, {}),
      St(346, {"plt"}, {})
    >>,
    <<
      St(377, {"pm"}, {"mdl_signoise"}),
      In("mdl_signoise", St(379, {"pm", "x_center"}, {"tsv_x"})),
      In("mdl_signoise", St(380, {"pm", "y_center"}, {"tsv_y"})),
      In("mdl_signoise", St(381, {"pm", "sy_center"}, {"tsv_sy"})),
      In("mdl_signoise", St(383, {"pm"}, {"b0"})),
      In("mdl_signoise", St(384, {"pm"}, {"b1"})),
      In("mdl_signoise", St(386, {"b0", "b1", "pm", "tsv_x"}, {"y_est"})),
      In("mdl_signoise", St(388, {"pm"}, {"Yb"})),
      In("mdl_signoise", St(389, {"pm"}, {"Vb"})),
      In("mdl_signoise", St(391, {"pm", "tsv_sy", "tsv_y", "y_est"}, {"logL_in"})),
      In("mdl_signoise", St(392, {"Vb", "pm", "tsv_sy"}, {"sigma_out"})),
      In("mdl_signoise", St(393, {"Yb", "pm", "sigma_out", "tsv_y"}, {"logL_out"})),
      In("mdl_signoise", St(395, {"pm"}, {"Pb"})),
      In("mdl_signoise", St(401, {"Pb", "np", "pm", "tsv_x"}, {"qi"})),
      In("mdl_signoise", St(408, {"logL_in", "logL_out", "pm", "qi"}, {"potential"})),
      St(413, {"display", "mdl_signoise"}, {})
    >>,
    <<
      St(425, {"mdl_signoise"}, {}),
      In("mdl_signoise", St(426, {"pm"}, {"traces_signoise"}))
    >>,
    <<
      St(457, {"mdl_signoise"}, {}),
      In("mdl_signoise", St(458, {"display", "pm", "traces_signoise"}, {})),
      In("mdl_signoise", St(468, {"pm", "traces_signoise"}, {}))
    >>,
    <<
      St(498, {"pm", "traces_signoise"}, {"df"}),
      St(508, {"df", "un_center", "x_mean", "x_std", "y_mean", "y_std"}, {"b0", "b1"}),
      St(510, {"b0", "df"}, {}),
      St(511, {"b1", "df"}, {}),
      Def(513, "hide_current_axis", {}, {"plt"}),
      St(517, {"df", "seaborn"}, {"g"}),
      St(522, {"g", "hide_current_axis"}, {}),
      St(523, {"seaborn"}, {})
    >>,
    <<
      St(545, {"plt"}, {}),
      St(546, {"plt", "range", "traces_signoise"}, {}),
      St(551, {"plt"}, {}),
      St(552, {"plt"}, {"ax"}),
      St(553, {"ax", "range"}, {}),
      Data(St(554, {"ax", "data"}, {}), {"ID"}),
      St(555, {"plt"}, {}),
      St(556, {"plt"}, {}),
      St(557, {"plt"}, {})
    >>,
    <<
      St(578, {"mdl_signoise"}, {}),
      In("mdl_signoise", St(579, {"pm", "traces_signoise"}, {}))
    >>,
    <<
      St(603, {"traces_signoise"}, {})
    >>,
    <<
      St(626, {"traces_signoise", "y_mean", "y_std"}, {"y_est"}),
      St(629, {"traces_signoise"}, {"prob_outlier"}),
      St(630, {"prob_outlier"}, {"outliers"}),
      St(632, {"plt"}, {}),
      Data(St(634, {"data", "outliers", "plt"}, {}), {"sy", "x", "y"}),
      Data(St(646, {"data", "outliers", "plt"}, {}), {"sy", "x", "y"}),
      St(658, {"idx", "np", "y_est"}, {"y_est_median", "y_est_minus_2_sigma", "y_est_plus_2_sigma"}),
      Data(St(665, {"data", "idx", "plt", "y_est_median"}, {}), {"x"}),
      Data(St(673, {"data", "idx", "plt", "y_est_minus_2_sigma", "y_est_plus_2_sigma"}, {}), {"x"}),
      Data(St(682, {"data", "idx", "plt", "y_est"}, {}), {"x"}),
      St(689, {"plt"}, {}),
      St(690, {"plt"}, {}),
      St(691, {"plt"}, {})
    >>,
    <<
      St(711, {"pm"}, {"mixture"}),
      In("mixture", St(712, {"np", "pm"}, {"w"})),
      In("mixture", St(713, {"pm"}, {"b0"})),
      In("mixture", St(714, {"pm"}, {"b1"})),
      In("mixture", St(715, {"pm"}, {"Yb"})),
      In("mixture", St(716, {"pm"}, {"Vb"})),
      In("mixture", St(717, {"Yb", "b0", "b1", "np", "pm", "tt", "x_center"}, {"y_est"})),
      In("mixture", St(727, {"Vb", "np", "pm", "sy_center", "tt"}, {"sigma"})),
      In("mixture", St(737, {"pm", "sigma", "w", "y_center", "y_est"}, {"likelihood"})),
      St(745, {"display", "mixture"}, {}),
      St(746, {"display", "mixture", "pm"}, {})
    >>,
    <<
      St(762, {"mixture"}, {}),
      In("mixture", St(763, {"pm"}, {"traces_mixture"}))
    >>,
    <<
      St(785, {"mixture"}, {}),
      In("mixture", St(786, {"display", "pm", "traces_mixture"}, {})),
      In("mixture", St(796, {"pm", "traces_mixture"}, {}))
    >>,
    <<
      St(828, {"pm"}, {"mdl_ols_sx"}),
      In("mdl_ols_sx", St(829, {"pm"}, {"b0"})),
      In("mdl_ols_sx", St(830, {"pm"}, {"b1"})),
      In("mdl_ols_sx", St(831, {"len", "pm", "x_center"}, {"x_est"})),
      In("mdl_ols_sx", St(832, {"pm", "sx_center", "x_center", "x_est"}, {"likelihood_x"})),
      In("mdl_ols_sx", St(833, {"b0", "b1", "pm", "x_est"}, {"y_est"})),
      In("mdl_ols_sx", St(834, {"pm", "sy_center", "y_center", "y_est"}, {"likelihood_y"})),
      St(836, {"display", "mdl_ols_sx"}, {}),
      St(837, {"display", "mdl_ols_sx", "pm"}, {})
    >>,
    <<
      St(859, {"mdl_ols_sx"}, {}),
      In("mdl_ols_sx", St(860, {"pm"}, {"traces_ols_2"}))
    >>,
    <<
      St(872, {"mdl_ols_sx"}, {}),
      In("mdl_ols_sx", St(873, {"display", "pm", "traces_ols_2"}, {})),
      In("mdl_ols_sx", St(874, {"pm", "traces_ols_2"}, {}))
    >>,
    <<
      St(894, {"np"}, {"x_eval"}),
      St(895, {"traces_ols_2", "x_eval"}, {"y_eval"}),
      St(898, {"x_eval", "x_mean", "x_std"}, {"x_eval"}),
      St(899, {"y_eval", "y_mean", "y_std"}, {"y_eval"}),
      St(902, {"np", "y_eval"}, {"y_est_median", "y_est_minus_2_sigma", "y_est_plus_2_sigma"}),
      St(908, {"plt"}, {}),
      Data(St(909, {"data", "plt"}, {}), {"sx", "sy", "x", "y"}),
      St(923, {"plt", "x_eval", "y_est_median"}, {}),
      St(931, {"plt", "x_eval", "y_est_minus_2_sigma", "y_est_plus_2_sigma"}, {}),
      St(940, {"plt", "x_eval", "y_eval"}, {}),
      St(947, {"plt"}, {}),
      St(948, {"plt"}, {}),
      St(949, {"plt"}, {})
    >>
>>

\* the code cells of the Gaussian-process notebook
GpCells == <<
    <<
      St(24, {}, {"np"}),
      St(25, {}, {"pm"}),
      St(26, {}, {"tt"}),
      St(27, {}, {"interpolate"}),
      St(28, {}, {"seaborn"}),
      St(29, {}, {"plt"}),
      St(30, {}, {"mpl_style"}),
      St(32, {"mpl_style", "plt"}, {}),
      St(33, {"mpl_style", "seaborn"}, {})
    >>,
    <<
      St(42, {}, {"warnings"}),
      St(43, {"warnings"}, {})
    >>,
    <<
      St(62, {}, {"h"}),
      St(63, {"h", "pm"}, {"cov"}),
      St(65, {"np"}, {"x"}),
      St(66, {"cov", "x"}, {"K"}),
      St(68, {"plt"}, {}),
      St(70, {"plt"}, {}),
      St(71, {"K", "np", "plt", "pm", "x"}, {}),
      St(72, {"plt"}, {}),
      St(73, {"plt"}, {}),
      St(75, {"plt"}, {}),
      St(76, {"K", "plt"}, {}),
      St(77, {"plt"}, {}),
      St(78, {"plt"}, {})
    >>,
    <<
      St(96, {"np"}, {"x1"}),
      St(97, {"np", "x1"}, {"y1"})
    >>,
    <<
      St(114, {"x1"}, {"X"}),
      St(115, {"pm"}, {"model"}),
      In("model", St(116, {"pm"}, {"h"})),
      In("model", St(117, {"pm"}, {"c"})),
      In("model", St(118, {"c", "h", "pm"}, {"cov"})),
      In("model", St(119, {"cov", "pm"}, {"gp"})),
      In("model", St(120, {"pm"}, {"noise"})),
      In("model", St(121, {"X", "gp", "noise", "y1"}, {"y_fit"})),
      St(123, {"display", "model"}, {}),
      St(124, {"display", "model", "pm"}, {})
    >>,
    <<
      St(140, {"model"}, {}),
      In("model", St(141, {"pm"}, {"mp"})),
      St(143, {"display", "mp"}, {})
    >>,
    <<
      St(160, {}, {"n_new"}),
      St(161, {"n_new", "np"}, {"X_new"}),
      Use(St(163, {"X_new", "gp", "mp"}, {"mu", "var"}), "predict", "mp", ""),
      St(164, {"np", "var"}, {"sd"})
    >>,
    <<
      St(180, {"plt"}, {}),
      St(181, {"plt", "x1", "y1"}, {}),
      St(183, {"X_new", "np", "plt"}, {}),
      St(191, {"X_new", "mu", "plt"}, {}),
      St(201, {"X_new", "mu", "plt", "sd"}, {}),
      St(212, {"plt"}, {}),
      St(213, {"plt"}, {}),
      St(214, {"plt"}, {}),
      St(215, {"plt"}, {}),
      St(216, {"plt"}, {})
    >>,
    <<
      St(233, {"model"}, {}),
      In("model", St(234, {"pm"}, {"trace"})),
      In("model", St(235, {"display", "pm", "trace"}, {})),
      In("model", St(236, {"pm", "trace"}, {}))
    >>,
    <<
      St(245, {"pm", "trace"}, {"df"}),
      Def(247, "hide_current_axis", {}, {"plt"}),
      St(250, {"df", "seaborn"}, {"g"}),
      St(255, {"g", "hide_current_axis"}, {}),
      St(256, {"seaborn"}, {})
    >>,
    <<
      St(274, {"model"}, {}),
      In("model", Use(St(275, {"X_new", "gp"}, {"f_new"}), "conditional", "", ""))
    >>,
    <<
      St(291, {"model"}, {}),
      In("model", Use(St(292, {"f_new", "pm", "trace"}, {"ppc"}), "ppc", "trace", "f_new"))
    >>,
    <<
      St(308, {"plt"}, {}),
      St(309, {"plt"}, {"ax"}),
      St(311, {"plt", "x1", "y1"}, {}),
      St(313, {"X_new", "ax", "pm", "ppc"}, {}),
      St(322, {"X_new", "np", "plt"}, {}),
      St(330, {"plt"}, {}),
      St(331, {"plt"}, {}),
      St(332, {"plt"}, {}),
      St(333, {"plt"}, {}),
      St(334, {"plt"}, {})
    >>,
    <<
      St(358, {"np", "y1"}, {"dy"}),
      St(359, {"dy", "np"}, {"y_noise"}),
      St(360, {"y1", "y_noise"}, {"y2"})
    >>,
    <<
      St(369, {"pm"}, {"model_noise"}),
      In("model_noise", St(370, {"pm"}, {"h"})),
      In("model_noise", St(371, {"pm"}, {"c"})),
      In("model_noise", St(372, {"c", "h", "pm"}, {"cov"})),
      In("model_noise", St(373, {"cov", "pm"}, {"gp"})),
      In("model_noise", St(374, {"X", "dy", "gp", "y2"}, {"y_fit"})),
      St(376, {"display", "model_noise"}, {}),
      St(377, {"display", "model_noise", "pm"}, {})
    >>,
    <<
      St(386, {"model_noise"}, {}),
      In("model_noise", St(387, {"pm"}, {"mp_noise"})),
      St(389, {"display", "mp_noise"}, {})
    >>,
    <<
      Use(St(406, {"X_new", "gp", "mp_noise"}, {"mu_noise", "var_noise"}), "predict", "mp_noise",
          ""),
      St(407, {"np", "var_noise"}, {"sd_noise"})
    >>,
    <<
      St(416, {"plt"}, {}),
      St(417, {"dy", "plt", "x1", "y2"}, {}),
      St(419, {"X_new", "np", "plt"}, {}),
      St(427, {"X_new", "mu_noise", "plt"}, {}),
      St(437, {"X_new", "mu_noise", "plt", "sd_noise"}, {}),
      St(448, {"plt"}, {}),
      St(449, {"plt"}, {}),
      St(450, {"plt"}, {}),
      St(451, {"plt"}, {}),
      St(452, {"plt"}, {})
    >>,
    <<
      Def(474, "CubicSpline", {"pm"}, {"CubicSpline", "super", "tt"})
    >>,
    <<
      St(515, {"pm"}, {"model_cube"}),
      In("model_cube", St(516, {"pm"}, {"tau"})),
      In("model_cube", St(518, {"CubicSpline", "tau"}, {"cov"})),
      In("model_cube", St(519, {"cov", "pm"}, {"gp"})),
      In("model_cube", St(520, {"pm"}, {"noise"})),
      In("model_cube", St(521, {"gp", "noise", "x1", "y1"}, {"y_fit"})),
      St(523, {"display", "model_cube"}, {}),
      St(524, {"display", "model_cube", "pm"}, {})
    >>,
    <<
      St(533, {"model_cube"}, {}),
      In("model_cube", St(534, {"pm"}, {"mp_cube"})),
      St(536, {"display", "mp_cube"}, {})
    >>,
    <<
      Use(St(545, {"X_new", "gp", "mp_cube"}, {"mu_cube", "var_cube"}), "predict", "mp_cube", ""),
      St(546, {"np", "var_cube"}, {"sd_cube"})
    >>,
    <<
      St(562, {"interpolate", "x1", "y1"}, {"tck"}),
      St(563, {"X_new", "interpolate", "tck"}, {"y_new"})
    >>,
    <<
      St(572, {"plt"}, {}),
      St(573, {"plt", "x1", "y1"}, {}),
      St(575, {"X_new", "np", "plt"}, {}),
      St(583, {"X_new", "mu_cube", "plt"}, {}),
      St(593, {"X_new", "mu_cube", "plt", "sd_cube"}, {}),
      St(603, {"X_new", "plt", "y_new"}, {}),
      St(606, {"plt"}, {}),
      St(607, {"plt"}, {}),
      St(608, {"plt"}, {}),
      St(609, {"plt"}, {}),
      St(610, {"plt"}, {})
    >>,
    <<
      St(629, {"pm"}, {"model_cube_err"}),
      In("model_cube_err", St(630, {"pm"}, {"tau"})),
      In("model_cube_err", St(631, {"CubicSpline", "tau"}, {"cov"})),
      In("model_cube_err", St(632, {"cov", "pm"}, {"gp"})),
      In("model_cube_err", St(633, {"dy", "gp", "x1", "y2"}, {"y_fit"})),
      St(635, {"display", "model_cube_err"}, {}),
      St(636, {"display", "model_cube_err", "pm"}, {})
    >>,
    <<
      St(645, {"model_cube_err"}, {}),
      In("model_cube_err", St(646, {"pm"}, {"mp_cube_err"})),
      St(648, {"display", "mp_cube_err"}, {})
    >>,
    <<
      Use(St(657, {"X_new", "gp", "mp_cube_err"}, {"mu_cube_err", "var_cube_err"}), "predict",
          "mp_cube_err", ""),
      St(658, {"np", "var_cube_err"}, {"sd_cube_err"})
    >>,
    <<
      St(667, {"interpolate", "x1", "y2"}, {"tck_noise"}),
      St(668, {"X_new", "interpolate", "tck_noise"}, {"y_new_noise"})
    >>,
    <<
      St(677, {"plt"}, {}),
      St(678, {"dy", "plt", "x1", "y2"}, {}),
      St(680, {"X_new", "np", "plt"}, {}),
      St(688, {"X_new", "mu_cube_err", "plt"}, {}),
      St(698, {"X_new", "mu_cube_err", "plt", "sd_cube_err"}, {}),
      St(708, {"X_new", "plt", "y_new_noise"}, {}),
      St(711, {"plt"}, {}),
      St(712, {"plt"}, {}),
      St(713, {"plt"}, {}),
      St(714, {"plt"}, {}),
      St(715, {"plt"}, {})
    >>
>>

\* the code cells of the emcee notebook that follows it in the same file
EmceeCells == <<
    <<
      St(809, {}, {"np"}),
      St(810, {}, {"logsumexp"}),
      St(811, {}, {"plt"}),
      St(812, {}, {"emcee"}),
      St(813, {}, {"hist"}),
      St(814, {}, {"Table"}),
      St(815, {}, {"mpl_style"}),
      St(817, {"mpl_style", "plt"}, {})
    >>,
    <<
      ReadCsv(St(836, {"Table"}, {"data"})),
      Data(St(837, {"data"}, {"x"}), {"x"}),
      Data(St(838, {"data"}, {"y"}), {"y"}),
      Data(St(839, {"data"}, {"sy"}), {"sy"})
    >>,
    <<
      St(856, {"plt"}, {}),
      St(857, {"plt", "sy", "x", "y"}, {}),
      St(868, {"plt"}, {}),
      St(869, {"plt"}, {}),
      St(870, {"plt"}, {})
    >>,
    <<
      Def(895, "lnprior", {}, {"np"})
    >>,
    <<
      Def(918, "lnGau", {}, {"np"})
    >>,
    <<
      Def(938, "lnprob", {}, {"lnGau", "lnprior", "logsumexp", "np"})
    >>,
    <<
      St(970, {}, {"ndim"}),
      St(972, {}, {"nwalkers"}),
      St(974, {"np"}, {"p0"}),
      St(976, {"np", "nwalkers", "p0", "range"}, {"pos"})
    >>,
    <<
      St(995, {"emcee", "lnprob", "ndim", "nwalkers", "sy", "x", "y"}, {"sampler"}),
      St(996, {"pos", "sampler"}, {})
    >>,
    <<
      St(1013, {"plt"}, {}),
      St(1014, {"plt"}, {}),
      St(1015, {"plt", "sampler"}, {}),
      St(1016, {"plt"}, {}),
      St(1017, {"plt"}, {}),
      St(1018, {"plt"}, {}),
      St(1019, {"plt", "sampler"}, {}),
      St(1020, {"plt"}, {}),
      St(1021, {"plt"}, {}),
      St(1022, {"plt"}, {}),
      St(1023, {"plt", "sampler"}, {}),
      St(1024, {"plt"}, {}),
      St(1025, {"plt"}, {}),
      St(1026, {"plt"}, {}),
      St(1027, {"plt", "sampler"}, {}),
      St(1028, {"plt"}, {}),
      St(1029, {"plt"}, {}),
      St(1030, {"plt"}, {}),
      St(1031, {"np", "plt", "sampler"}, {}),
      St(1032, {"plt"}, {}),
      St(1033, {"plt"}, {}),
      St(1034, {"plt"}, {})
    >>,
    <<
      St(1052, {"ndim", "sampler"}, {"samples"}),
      St(1053, {"np", "samples"}, {"fits"}),
      St(1054, {"fits", "map", "zip"}, {"fits_pm"}),
      St(1055, {"fits_pm", "list", "print"}, {})
    >>,
    <<
      St(1072, {"plt"}, {}),
      St(1073, {"plt", "samples"}, {}),
      St(1074, {"plt"}, {}),
      St(1075, {"plt"}, {})
    >>,
    <<
      St(1091, {"plt"}, {}),
      St(1092, {"plt"}, {}),
      St(1093, {"hist", "samples"}, {"bins", "patches", "values"}),
      St(1101, {"plt"}, {}),
      St(1102, {"plt"}, {}),
      St(1103, {"plt"}, {}),
      St(1104, {"hist", "samples"}, {"bins", "patches", "values"}),
      St(1112, {"plt"}, {}),
      St(1113, {"plt"}, {}),
      St(1114, {"plt"}, {})
    >>,
    <<
      St(1130, {"plt"}, {}),
      St(1132, {"hist", "samples"}, {"bins", "patches", "values"}),
      St(1140, {"plt"}, {}),
      St(1141, {"plt"}, {}),
      St(1142, {"plt"}, {})
    >>,
    <<
      St(1161, {"np"}, {"X"}),
      St(1163, {"np", "samples"}, {"idx"}),
      St(1165, {"plt"}, {}),
      St(1166, {"plt", "sy", "x", "y"}, {}),
      St(1178, {"X", "fits", "plt"}, {}),
      St(1180, {"X", "idx", "plt", "samples"}, {"f", "i"}),
      St(1183, {"plt"}, {}),
      St(1184, {"plt"}, {}),
      St(1185, {"plt"}, {})
    >>,
    <<
      Def(1203, "check_outlier", {}, {"lnGau", "lnprior", "np"}),
      St(1213, {"plt"}, {}),
      St(1214, {"plt", "sy", "x", "y"}, {}),
      St(1226, {"X", "fits", "plt"}, {}),
      St(1228, {"X", "idx", "plt", "samples"}, {"f", "i"}),
      St(1232, {"check_outlier", "np", "samples", "sy", "x", "y"}, {"q_sample"}),
      St(1233, {"bool", "np", "q_sample"}, {"q_mask"}),
      St(1234, {"plt", "q_mask", "x", "y"}, {}),
      St(1235, {"plt"}, {}),
      St(1236, {"plt"}, {}),
      St(1237, {"plt"}, {})
    >>
>>

(***************************************************************************)
(* Running a notebook once, top to bottom                                  *)
(***************************************************************************)
\* the names the interpreter provides without an import: Python's builtins
\* and IPython's display
Builtins == {"bool", "display", "len", "list", "map", "print", "range", "super", "zip"}

Notebooks == {"mcmc", "gp", "emcee"}

Reverse(a) == [i \in 1..Len(a) |-> a[Len(a) + 1 - i]]

BottomToTop(cells) == Reverse(cells)

\* the order in which the cells are evaluated
TopToBottom(cells) == cells

Cells(nb) ==
    TopToBottom(IF nb = "mcmc" THEN McmcCells ELSE IF nb = "gp" THEN GpCells ELSE EmceeCells)

\* the names a statement needs bound: those it reads, and those read by the
\* bodies of the functions and classes among them
RECURSIVE Needs(_, _)
Needs(r, b) ==
    LET more == r \cup UNION {b[f] : f \in r \cap DOMAIN b}
    IN  IF more = r THEN r ELSE Needs(more, b)

BindOnce(ns, st) ==
    [n \in DOMAIN ns \cup st.binds |-> IF n \in DOMAIN ns THEN ns[n] ELSE st.ctx]

\* an assignment binds, or rebinds, its targets in the global namespace
Bind(ns, st) ==
    [n \in DOMAIN ns \cup st.binds |-> IF n \in st.binds THEN st.ctx ELSE ns[n]]

\* the bodies known after the statement: a def or class records its body, any
\* other binding of the name forgets it
Bodies(b, st) ==
    [f \in (DOMAIN b \ st.binds) \cup (IF st.isdef THEN st.binds ELSE {}) |->
        IF f \in st.binds THEN st.body ELSE b[f]]

CsvReadOrUse(st) == st.csv \/ st.cols # {}

\* the statement opens and reads data.csv
CsvRead(st) == st.csv

\* the call the statement makes on gp: the model in which the object it
\* operates on was created, and the model of the point or trace it is used with
UsesOf(st, ns) ==
    IF st.use = "predict"
    THEN {[line |-> st.line, gp |-> ns["gp"], with |-> ns[st.point]]}
    ELSE IF st.use = "conditional"
    THEN {[line |-> st.line, gp |-> ns["gp"], with |-> st.ctx]}
    ELSE IF st.use = "ppc"
    THEN {[line |-> st.line, gp |-> ns[st.var], with |-> ns[st.point]]}
    ELSE {}

Finished == notebook # "none" /\ cellNo > Len(Cells(notebook))

InitCells ==
    /\ theta = p0 /\ thetaB = p0 /\ lp = Unset /\ lpB = Unset
    /\ IdleLike /\ IdleWalk /\ IdleChain /\ IdleSum /\ IdleKern
    /\ notebook \in Notebooks
    /\ cellNo = 1 /\ stmtNo = 1
    /\ names = [n \in Builtins |-> "none"]
    /\ bodies = <<>>
    /\ nameErrors = {}
    /\ csvReads = 0 /\ columns = {} /\ gpUses = {}

\* the next statement runs: a name it needs that is not bound raises NameError
\* and the run stops; otherwise it has its effects and the run moves on
RunStatement ==
    /\ notebook # "none" /\ ~Finished /\ nameErrors = {}
    /\ LET st == Cells(notebook)[cellNo][stmtNo]
           missing == Needs(st.reads, bodies) \ DOMAIN names
       IN  IF missing # {}
           THEN /\ nameErrors' = {[line |-> st.line, names |-> missing]}
                /\ UNCHANGED <<cellNo, stmtNo, names, bodies, csvReads, columns, gpUses>>
           ELSE /\ names' = Bind(names, st)
                /\ bodies' = Bodies(bodies, st)
                /\ csvReads' = IF CsvRead(st) THEN csvReads + 1 ELSE csvReads
                /\ columns' = columns \cup st.cols
                /\ gpUses' = gpUses \cup UsesOf(st, names)
                /\ IF stmtNo < Len(Cells(notebook)[cellNo])
                   THEN stmtNo' = stmtNo + 1 /\ cellNo' = cellNo
                   ELSE stmtNo' = 1 /\ cellNo' = cellNo + 1
                /\ UNCHANGED nameErrors
    /\ UNCHANGED <<priorVars, likeVars, walkVars, chainVars, sumVars, kernVars, notebook>>

NextCells == RunStatement

SpecCells == InitCells /\ [][NextCells]_vars

\* the notebooks that use the table
UsesTable == {"mcmc", "emcee"}

\* C12 (as claimed): data.csv is read exactly once per notebook and only its
\* columns x, y, sx and sy are accessed.
C12_ReadOnceOnlyXYSxSy ==
    notebook \in UsesTable =>
        /\ csvReads <= 1
        /\ Finished => csvReads = 1
        /\ columns \subseteq {"x", "y", "sx", "sy"}

\* C12 (amended): data.csv is read exactly once per notebook that uses it, before
\* any column is accessed; the pymc notebook accesses the columns x, y, sx, sy
\* and also ID, the emcee notebook only x, y and sy, and the Gaussian-process
\* notebook does not touch the table.
C12_ReadOnceColumnsWithID ==
    /\ csvReads <= 1
    /\ columns # {} => csvReads = 1
    /\ (Finished /\ notebook \in UsesTable) => csvReads = 1
    /\ notebook = "mcmc" =>
          /\ columns \subseteq {"x", "y", "sx", "sy", "ID"}
          /\ Finished => columns = {"x", "y", "sx", "sy", "ID"}
    /\ notebook = "emcee" =>
          /\ columns \subseteq {"x", "y", "sy"}
          /\ Finished => columns = {"x", "y", "sy"}
    /\ notebook = "gp" => csvReads = 0 /\ columns = {}

\* the pymc notebook has run to its end, having read the file once and the ID
\* column among the others
C12_Witness ==
    /\ notebook = "mcmc" /\ Finished /\ nameErrors = {}
    /\ csvReads = 1
    /\ "ID" \in columns /\ "sx" \in columns

GpModels == {"model", "model_noise", "model_cube", "model_cube_err"}

\* C13: when the Gaussian-process notebook is run once, top to bottom, every
\* gp.predict and gp.conditional call operates on the GP object created in the
\* same model as the MAP point or trace it is used with, although every model
\* rebinds the one global name gp; by the end each of the four models has been
\* used so.
C13_GpUsedWithItsOwnModel ==
    /\ \A u \in gpUses : u.gp \in GpModels /\ u.gp = u.with
    /\ (notebook = "gp" /\ Finished) =>
          /\ {u.gp : u \in gpUses} = GpModels
          /\ \E u \in gpUses : u.line = 275 /\ u.gp = "model"

\* the Gaussian-process notebook has run to its end: gp has been rebound by each
\* model in turn and used six times
C13_Witness ==
    /\ notebook = "gp" /\ Finished
    /\ names["gp"] = "model_cube_err"
    /\ Cardinality(gpUses) = 6

\* C14: under top-to-bottom evaluation every name a statement reads, and every
\* name read by the functions and classes it uses, has been bound by an
\* earlier statement of the same cell or by an earlier cell (or is provided by
\* the interpreter): no run stops with a NameError.
C14_NamesBoundBeforeUse ==
    /\ nameErrors = {}
    /\ (notebook # "none" /\ ~Finished) =>
          Needs(Cells(notebook)[cellNo][stmtNo].reads, bodies) \subseteq DOMAIN names

\* the emcee notebook has run to its end, its last cell having called
\* check_outlier, whose body reads lnprior, lnGau and np
C14_Witness ==
    /\ notebook = "emcee" /\ Finished /\ nameErrors = {}
    /\ "check_outlier" \in DOMAIN bodies
    /\ {"lnprior", "lnGau", "np"} \subseteq bodies["check_outlier"]
    /\ "q_mask" \in DOMAIN names

=============================================================================
